---- MODULE Spec2Model ----
(***************************************************************************)
(* tomlkit: the schema service (catalog, glob matcher, disk cache,         *)
(* redirect-following fetch) and the diagnostics orchestrator of the       *)
(* VS Code extension, as a state machine.                                  *)
(*                                                                         *)
(* JavaScript runs every callback to completion, so one action is one run  *)
(* of code between two points where the program waits for the network:     *)
(* an editor event up to the first pending request, or an HTTP callback    *)
(* up to the next pending request or the end of the task.  File system     *)
(* calls are the synchronous fs.*Sync ones and stay inside the action.     *)
(***************************************************************************)
EXTENDS Integers, Sequences, FiniteSets, TLC

VARIABLES
    validateToml,   \* extension.ts:22  "null" | "loaded" (validateWithSchema is set with it)
    catalog,        \* schemaService.catalog: JsNull or the parsed catalog JSON
    cache,          \* the files of cacheDir, by schema URL: NoFile or [content, mtime]
    now,            \* Date.now(), in milliseconds
    ticks,          \* how often the clock has been advanced (bounds the run)
    env,            \* what the surroundings do in this run (fixed by Init)
    tasks,          \* one record per call of updateDiagnostics, in trigger order
    published,      \* diagnosticCollection, by document: Unset or [diags, by]
    fetchedOk,      \* history: some fetchJson(catalogUrl) has resolved
    gPattern,       \* matcher runs: the catalog pattern under test
    gName,          \* matcher runs: the file base name under test
    gResult,        \* matcher runs: "unset" | "match" | "nomatch" | "throw"
    mSchemas,       \* catalog search runs: the schemas array searched
    mResult,        \* catalog search runs: "unset" | the url found | "" | "throw"
    sResult,        \* syntax mapping runs: the ValidationResult parsed at extension.ts:47
    sDiags,         \* syntax mapping runs: the diagnostics list after extension.ts:62
    eErrors,        \* schema mapping runs: schemaResult.errors
    eContent,       \* schema mapping runs: the text of the document
    eDiags          \* schema mapping runs: the diagnostics list after extension.ts:98

orchVars == <<validateToml, catalog, cache, now, ticks, env, tasks, published, fetchedOk>>
globVars == <<gPattern, gName, gResult, mSchemas, mResult, sResult, sDiags,
              eErrors, eContent, eDiags>>
vars == <<validateToml, catalog, cache, now, ticks, env, tasks, published, fetchedOk,
          gPattern, gName, gResult, mSchemas, mResult, sResult, sDiags,
          eErrors, eContent, eDiags>>

(***************************************************************************)
(* Bounds of the model.                                                    *)
(***************************************************************************)
MaxTriggers == 2
MaxTicks == 2
MaxPatLen == 3
MaxNameLen == 3
MaxEntries == 2
MaxPatterns == 2
MaxPos == 4
MaxTextLen == 4
MaxErrors == 2

(***************************************************************************)
(* Text.  A string is a sequence of one-character strings.                 *)
(***************************************************************************)
RECURSIVE SeqsUpTo(_, _)
SeqsUpTo(S, n) ==
    IF n = 0 THEN {<<>>}
    ELSE LET shorter == SeqsUpTo(S, n - 1)
         IN  shorter \cup {Append(s, c) : s \in {x \in shorter : Len(x) = n - 1}, c \in S}

EndsWith(s, suffix) ==
    /\ Len(s) >= Len(suffix)
    /\ SubSeq(s, Len(s) - Len(suffix) + 1, Len(s)) = suffix

\* path.basename: what follows the last "/"
RECURSIVE Basename(_)
Basename(s) ==
    IF \E i \in 1..Len(s) : s[i] = "/"
    THEN LET i == CHOOSE k \in 1..Len(s) : s[k] = "/" IN Basename(SubSeq(s, i + 1, Len(s)))
    ELSE s

(***************************************************************************)
(* The matcher of getSchemaForFile: the pattern is rewritten into the      *)
(* source of a regular expression, compiled, and searched for in the base  *)
(* name.                                                                   *)
(***************************************************************************)
\* pattern.replace(/\*/g, '.*')
RECURSIVE ReplaceStar(_)
ReplaceStar(p) ==
    IF p = <<>> THEN <<>>
    ELSE (IF Head(p) = "*" THEN <<".", "*">> ELSE <<Head(p)>>) \o ReplaceStar(Tail(p))

\* .replace(/\?/g, '.')
RECURSIVE ReplaceQuestion(_)
ReplaceQuestion(p) ==
    IF p = <<>> THEN <<>>
    ELSE (IF Head(p) = "?" THEN <<".">> ELSE <<Head(p)>>) \o ReplaceQuestion(Tail(p))

RegexSource(pattern) == ReplaceQuestion(ReplaceStar(pattern))

SyntaxError == <<[atom |-> "SyntaxError", star |-> FALSE]>>

\* new RegExp(source): a sequence of atoms, each possibly starred; "." is the
\* atom matching any character, "(" opens a group that nothing closes, and a
\* "*" with no atom before it has nothing to repeat.
RECURSIVE RegExpCompile(_)
RegExpCompile(src) ==
    IF src = <<>> THEN <<>>
    ELSE IF Head(src) \in {"(", "*"} THEN SyntaxError
    ELSE LET starred == Len(src) >= 2 /\ src[2] = "*"
             rest == RegExpCompile(SubSeq(src, IF starred THEN 3 ELSE 2, Len(src)))
         IN  IF rest = SyntaxError THEN SyntaxError
             ELSE <<[atom |-> IF Head(src) = "." THEN "any" ELSE Head(src),
                     star |-> starred]>> \o rest

AtomMatches(tok, c) == tok.atom = "any" \/ tok.atom = c

\* the compiled expression matches a prefix of s
RECURSIVE MatchPrefix(_, _)
MatchPrefix(toks, s) ==
    IF toks = <<>> THEN TRUE
    ELSE LET t == Head(toks)
         IN  IF t.star
             THEN \/ MatchPrefix(Tail(toks), s)
                  \/ (s # <<>> /\ AtomMatches(t, Head(s)) /\ MatchPrefix(toks, Tail(s)))
             ELSE s # <<>> /\ AtomMatches(t, Head(s)) /\ MatchPrefix(Tail(toks), Tail(s))

\* regex.test(baseName): an unanchored search
RegexTest(toks, s) == \E i \in 1..(Len(s) + 1) : MatchPrefix(toks, SubSeq(s, i, Len(s)))

\* the callback of fileMatch.some: "match", "nomatch", or "throw" when the
\* RegExp constructor rejects the source
PatternTest(pattern, baseName) ==
    LET regex == RegExpCompile(RegexSource(pattern))
    IN  IF regex = SyntaxError THEN "throw"
        ELSE IF RegexTest(regex, baseName) THEN "match" ELSE "nomatch"

(***************************************************************************)
(* The world outside the process: URLs, JSON documents, editor documents.  *)
(***************************************************************************)
CatalogUrl == "catalog.json"                \* SchemaService.catalogUrl
SchemaUrls == {"u1", "u2"}                  \* the "url" fields of the catalog
MirrorUrl == "mirror"                       \* a Location that is none of the above
Urls == {CatalogUrl, MirrorUrl} \cup SchemaUrls

CargoToml == <<"C", "a", "r", "g", "o", ".", "t", "o", "m", "l">>
DotToml == <<".", "t", "o", "m", "l">>

\* The JSON values a server may answer with, each named by its text.  A
\* catalog is read through hasSchemas/schemas, an entry through
\* hasFileMatch/fileMatch; the two schema documents are plain objects.
JsonValue(text) ==
    CASE text = "good" ->
           [truthy |-> TRUE, hasSchemas |-> TRUE,
            schemas |-> << [url |-> "u0", hasFileMatch |-> FALSE, fileMatch |-> <<>>],
                           [url |-> "u1", hasFileMatch |-> TRUE, fileMatch |-> <<CargoToml>>],
                           [url |-> "u2", hasFileMatch |-> TRUE,
                            fileMatch |-> << <<"*">> \o DotToml >>] >>]
      [] text = "badpattern" ->
           [truthy |-> TRUE, hasSchemas |-> TRUE,
            schemas |-> << [url |-> "u1", hasFileMatch |-> TRUE,
                            fileMatch |-> << <<"(", "*">> \o DotToml >>] >>]
      [] text = "null" -> [truthy |-> FALSE, hasSchemas |-> FALSE, schemas |-> <<>>]
      [] OTHER -> [truthy |-> TRUE, hasSchemas |-> FALSE, schemas |-> <<>>]

JsNull == "null"
CatalogBodies == {"good", "badpattern", "{}", "null", "malformed"}
SchemaBodies == {"s1", "{ s2 }", "malformed"}

\* JSON.parse: throws on a text that is no JSON, and reads past white space;
\* JSON.stringify writes the compact text
JsonParses(text) == text # "malformed"
JsonParse(text) == IF text = "{ s2 }" THEN "s2" ELSE text
JsonStringify(json) == json

\* The documents of the editor.  The language mode of a.txt is the user's to
\* set: the same document may come as plaintext or as toml.
Docs == {
    [uri |-> "cargo", fileName |-> <<"/", "w", "/">> \o CargoToml, languageId |-> "toml"],
    [uri |-> "x", fileName |-> <<"/", "w", "/", "x">> \o DotToml, languageId |-> "plaintext"],
    [uri |-> "txt", fileName |-> <<"/", "w", "/", "a", ".", "t", "x", "t">>,
     languageId |-> "plaintext"],
    [uri |-> "txt", fileName |-> <<"/", "w", "/", "a", ".", "t", "x", "t">>,
     languageId |-> "toml"] }
Uris == {d.uri : d \in Docs}

(***************************************************************************)
(* fetchJson (schemaService.ts 23-64)                                      *)
(***************************************************************************)
DefaultRedirects == 5
DayMs == 1000 * 60 * 60 * 24

\* what the server may answer: a status, a Location header ("" when absent), a body
Responses(url, bodies) ==
    {[status |-> 200, location |-> "", body |-> b] : b \in bodies}
    \cup {[status |-> 301, location |-> l, body |-> ""] :
             l \in IF env.redirects THEN {"", url, MirrorUrl} ELSE {""}}
    \cup {[status |-> 404, location |-> "", body |-> ""]}

\* the call fetchJson(url, redirects) up to the request: it throws at once when
\* no redirects are left, and otherwise sends one GET and waits
Rejected(url, redirects, reason) ==
    [kind |-> "rejected", url |-> url, redirects |-> redirects, json |-> "", reason |-> reason]

FetchJsonNoLimit(url, redirects) ==
    [kind |-> "pending", url |-> url, redirects |-> redirects, json |-> "", reason |-> ""]

FetchJson(url, redirects) ==
    IF redirects = 0
    THEN Rejected(url, redirects, "TooManyRedirects")
    ELSE [kind |-> "pending", url |-> url, redirects |-> redirects, json |-> "", reason |-> ""]

\* the callback of https.get for a fetch waiting with `redirects` left
HttpsGetCallback(url, redirects, res) ==
    IF res.status >= 300 /\ res.status < 400 /\ res.location # ""
    THEN FetchJson(res.location, redirects - 1)
    ELSE IF res.status # 200
    THEN Rejected(url, redirects, "RequestFailed")
    ELSE IF JsonParses(res.body)
    THEN [kind |-> "resolved", url |-> url, redirects |-> redirects,
          json |-> JsonParse(res.body), reason |-> ""]
    ELSE Rejected(url, redirects, "SyntaxError")

\* the 'error' event of the request
HttpsGetError(url, redirects) == Rejected(url, redirects, "NetworkError")

(***************************************************************************)
(* getSchemaForFile (schemaService.ts 76-105): the catalog search          *)
(***************************************************************************)
\* s.fileMatch.some(...): the patterns in order, up to the first match or throw
RECURSIVE SomePattern(_, _)
SomePattern(patterns, baseName) ==
    IF patterns = <<>> THEN "nomatch"
    ELSE LET r == PatternTest(Head(patterns), baseName)
         IN  IF r = "nomatch" THEN SomePattern(Tail(patterns), baseName) ELSE r

\* this.catalog.schemas.find(...): the url of the first entry one of whose
\* patterns matches, "" when there is none, "throw" when a pattern throws
RECURSIVE FindSchema(_, _)
FindSchema(schemas, baseName) ==
    IF schemas = <<>> THEN ""
    ELSE LET s == Head(schemas)
             r == IF s.hasFileMatch THEN SomePattern(s.fileMatch, baseName) ELSE "nomatch"
         IN  IF r = "throw" THEN "throw"
             ELSE IF r = "match" THEN s.url
             ELSE FindSchema(Tail(schemas), baseName)

\* reading .schemas.find of a catalog that has no schemas array is a TypeError
FindMapping(cat, fileName) ==
    IF ~JsonValue(cat).hasSchemas THEN "throw"
    ELSE FindSchema(JsonValue(cat).schemas, Basename(fileName))

(***************************************************************************)
(* The syntax mapping of updateDiagnostics (extension.ts 49-62)            *)
(***************************************************************************)
\* an optional field of ValidationResult that is not there
Undefined == 0 - 1

\* a ValidationResult; message "" stands for a missing or empty message
ValidationResult(valid, line, column, end_line, end_column, message) ==
    [valid |-> valid, line |-> line, column |-> column,
     end_line |-> end_line, end_column |-> end_column, message |-> message]

NoResult == ValidationResult(TRUE, Undefined, Undefined, Undefined, Undefined, "")

\* a ?? b
Coalesce(a, b) == IF a # Undefined THEN a ELSE b

IsBefore(a, b) == a.line < b.line \/ (a.line = b.line /\ a.character < b.character)

\* new vscode.Range(startLine, startCharacter, endLine, endCharacter): the two
\* positions, swapped when the second is before the first
VsRange(startLine, startCharacter, endLine, endCharacter) ==
    LET a == [line |-> startLine, character |-> startCharacter]
        b == [line |-> endLine, character |-> endCharacter]
    IN  IF IsBefore(b, a) THEN [start |-> b, end |-> a] ELSE [start |-> a, end |-> b]

Diagnostic(range, message, severity) ==
    [range |-> range, message |-> message, severity |-> severity]

\* the diagnostics list of a run that has not reached the mapping
NotMapped == <<Diagnostic(VsRange(0, 0, 0, 0), "", "unset")>>

SyntaxRangeNoDefault(result) ==
    VsRange(result.line, result.column,
            Coalesce(result.end_line, result.line), Coalesce(result.end_column, result.column))

\* extension.ts 50-55
SyntaxRange(result) ==
    VsRange(result.line, result.column,
            Coalesce(result.end_line, result.line),
            Coalesce(result.end_column, result.column + 1))

\* extension.ts 43-62: the diagnostics list after the syntax step
SyntaxDiagnostics(result) ==
    IF ~result.valid /\ result.line # Undefined /\ result.column # Undefined
    THEN <<Diagnostic(SyntaxRange(result),
                      IF result.message # "" THEN result.message ELSE "Syntax error TOML",
                      "Error")>>
    ELSE <<>>

(***************************************************************************)
(* The schema mapping of updateDiagnostics (extension.ts 75-98)            *)
(***************************************************************************)
Root == <<"r", "o", "o", "t">>

\* error.path.split('/'): the pieces between the slashes, empty ones included
RECURSIVE Split(_)
Split(path) ==
    IF \E i \in 1..Len(path) : path[i] = "/"
    THEN LET i == CHOOSE k \in 1..Len(path) :
                     path[k] = "/" /\ \A j \in 1..(k - 1) : path[j] # "/"
         IN  <<SubSeq(path, 1, i - 1)>> \o Split(SubSeq(path, i + 1, Len(path)))
    ELSE <<path>>

\* .filter(p => p.length > 0)
NonEmptyParts(path) == SelectSeq(Split(path), LAMBDA part : Len(part) > 0)

AnchorKeyFirst(path) ==
    LET parts == NonEmptyParts(path)
    IN  IF Len(parts) > 0 THEN parts[1] ELSE Root

\* extension.ts 78-79: parts[parts.length - 1] || 'root'
AnchorKey(path) ==
    LET parts == NonEmptyParts(path)
    IN  IF Len(parts) > 0 THEN parts[Len(parts)] ELSE Root

\* the key stands in the text at the (0-based) offset
OccursAt(content, key, offset) ==
    /\ offset + Len(key) <= Len(content)
    /\ SubSeq(content, offset + 1, offset + Len(key)) = key

\* content.indexOf(key): the first offset where the key stands, or -1
IndexOf(content, key) ==
    IF \E i \in 0..Len(content) : OccursAt(content, key, i)
    THEN CHOOSE i \in 0..Len(content) :
            OccursAt(content, key, i) /\ \A j \in 0..(i - 1) : ~OccursAt(content, key, j)
    ELSE 0 - 1

\* document.positionAt(offset): the line is the number of line breaks before
\* the offset, the character the distance from the last of them
PositionAt(content, offset) ==
    LET breaks == {k \in 1..offset : content[k] = "\n"}
        lineStart == IF breaks = {} THEN 0 ELSE CHOOSE k \in breaks : \A j \in breaks : j <= k
    IN  [line |-> Cardinality(breaks), character |-> offset - lineStart]

\* extension.ts 80-90
SchemaErrorRange(content, error) ==
    LET key == AnchorKey(error.path)
        index == IndexOf(content, key)
    IN  IF index # 0 - 1 /\ key # Root
        THEN VsRange(PositionAt(content, index).line,
                     PositionAt(content, index).character,
                     PositionAt(content, index + Len(key)).line,
                     PositionAt(content, index + Len(key)).character)
        ELSE VsRange(0, 0, 0, 1)

\* extension.ts 76-97: one Warning per error, in the order of the errors
RECURSIVE SchemaDiagnostics(_, _)
SchemaDiagnostics(content, errors) ==
    IF errors = <<>> THEN <<>>
    ELSE <<Diagnostic(SchemaErrorRange(content, Head(errors)),
                      <<"Schema Error", Head(errors).message, Head(errors).path>>,
                      "Warning")>>
         \o SchemaDiagnostics(content, Tail(errors))

(***************************************************************************)
(* State of the process                                                    *)
(***************************************************************************)
DocOf(uri) == CHOOSE d \in Docs : d.uri = uri

NoFile == [exists |-> FALSE, content |-> "", mtime |-> 0]
Unset == [set |-> FALSE, diags |-> <<>>, by |-> 0]

\* validate_toml on the text: valid, invalid with the position of the error,
\* invalid with no position, or a throw (of the call or of JSON.parse)
SyntaxOutcomes == {"valid", "invalid", "invalidNoPosition", "throws"}
SchemaOutcomes == {"valid", "invalid", "throws"}     \* validate_with_schema

\* The surroundings of a run: how many editor events arrive, how often the
\* clock is moved, whether servers redirect, whether requests may stay
\* unanswered, whether calls on the cache files may fail.
Env(triggers, clock, redirects, hangs, faults) ==
    [triggers |-> triggers, ticks |-> clock, redirects |-> redirects,
     hangs |-> hangs, faults |-> faults]

Environments ==
    { Env(MaxTriggers, 0, FALSE, TRUE, FALSE),
      Env(MaxTriggers, MaxTicks, FALSE, FALSE, FALSE),
      Env(MaxTriggers, 0, FALSE, FALSE, TRUE),
      Env(1, 0, TRUE, FALSE, FALSE) }

\* A call of updateDiagnostics.  doc/languageId are of the document it was
\* called with; pc is where it stands; url/redirects are the
\* arguments of the fetchJson call it waits in.  The fields from `target` on
\* record what the call has done so far and are read by no code: the schema
\* URL it looked up, what getSchemaForFile gave, what validate_with_schema
\* gave, the file system call that threw, how the catalog fetch and the
\* schema download ended ("ok" or the error), the requests sent to the
\* catalog URL and to the schema URL, and the redirects followed by the
\* fetch in progress, the catalog its own catalog fetch resolved with.
NewTask(d) ==
    [doc |-> d.uri, languageId |-> d.languageId,
     syntax |-> "notrun", pc |-> "start", hung |-> FALSE,
     url |-> "", redirects |-> 0, diags |-> <<>>,
     target |-> "", res |-> "none", schema |-> "notrun",
     fsFault |-> "", cat |-> "", dl |-> "", catReqs |-> 0, schReqs |-> 0, hops |-> 0,
     fetched |-> ""]

\* how a fetch ended, as the task records it
Ended(o) ==
    IF o.kind = "resolved" THEN "ok"
    ELSE IF o.reason = "TooManyRedirects" THEN o.reason ELSE "failed"

SetTask(i, rec) == IF i = Len(tasks) + 1 THEN Append(tasks, rec) ELSE [tasks EXCEPT ![i] = rec]

ContinueAdding(i, rec, res) ==
    \E sv \in (IF res \in {"rejected", "null", ""} THEN {"notrun"} ELSE SchemaOutcomes) :
        LET diagnostics == rec.diags \o (IF sv = "invalid" THEN <<"Warning">> ELSE <<>>)
        IN  /\ tasks' = SetTask(i, [rec EXCEPT !.pc = "published", !.res = res,
                                               !.schema = sv, !.diags = diagnostics])
            /\ published' = [published EXCEPT ![rec.doc] =
                                [set |-> TRUE, diags |-> @.diags \o diagnostics, by |-> i]]

\* extension.ts 69-107: getSchemaForFile has settled with res ("rejected", "null"
\* or the schema text); validate against the schema if there is one, and publish
Continue(i, rec, res) ==
    \E sv \in (IF res \in {"rejected", "null", ""} THEN {"notrun"} ELSE SchemaOutcomes) :
        LET diagnostics == rec.diags \o (IF sv = "invalid" THEN <<"Warning">> ELSE <<>>)
        IN  /\ tasks' = SetTask(i, [rec EXCEPT !.pc = "published", !.res = res,
                                               !.schema = sv, !.diags = diagnostics])
            /\ published' = [published EXCEPT ![rec.doc] =
                                [set |-> TRUE, diags |-> diagnostics, by |-> i]]

\* the task sends a request (fetchJson is pending) and waits
Await(i, rec, pc, f) ==
    /\ tasks' = SetTask(i, [rec EXCEPT !.pc = pc, !.url = f.url, !.redirects = f.redirects,
                                      !.catReqs = @ + (IF f.url = CatalogUrl THEN 1 ELSE 0),
                                      !.schReqs = @ + (IF f.url = rec.target THEN 1 ELSE 0)])
    /\ UNCHANGED published

\* what a call on an existing cache file may do: return, or throw when the
\* file system fails
FsOutcomes == IF env.faults THEN {"ok", "throw"} ELSE {"ok"}

FallbackNone(i, rec) == Continue(i, rec, "null")

\* schemaService.ts 127-134: the catch block of getSchemaContent
Fallback(i, rec) ==
    LET f == cache[rec.target]
    IN  IF f.exists
        THEN \E read \in FsOutcomes :
                IF read = "ok" THEN Continue(i, rec, f.content)
                ELSE Continue(i, [rec EXCEPT !.fsFault = "read"], "rejected")
        ELSE Continue(i, rec, "null")

IsFreshHour(dateNow, mtimeMs) == (dateNow - mtimeMs) < 1000 * 60 * 60

\* schemaService.ts 114
IsFresh(dateNow, mtimeMs) == (dateNow - mtimeMs) < DayMs

\* schemaService.ts 107-123: getSchemaContent up to the download
GetSchemaContent(i, rec, url) ==
    LET f == cache[url]
        isFresh == IsFresh(now, f.mtime)
        r1 == [rec EXCEPT !.target = url]
        fetch == FetchJson(url, DefaultRedirects)
        Download == IF fetch.kind = "pending" THEN Await(i, r1, "awaitSchema", fetch)
                    ELSE Fallback(i, [r1 EXCEPT !.dl = Ended(fetch)])
    IN  IF f.exists
        THEN \E stat \in FsOutcomes, read \in FsOutcomes :
                IF stat = "throw"
                THEN read = "ok" /\ Continue(i, [r1 EXCEPT !.fsFault = "stat"], "rejected")
                ELSE IF isFresh
                THEN IF read = "ok" THEN Continue(i, r1, f.content)
                     ELSE Continue(i, [r1 EXCEPT !.fsFault = "read"], "rejected")
                ELSE read = "ok" /\ Download
        ELSE Download

\* what the search gives for each document in each catalog a server may send
Mapping ==
    [cat \in {JsonParse(b) : b \in {c \in CatalogBodies : JsonParses(c)}} |->
        [uri \in Uris |-> FindMapping(cat, DocOf(uri).fileName)]]

\* schemaService.ts 78-104: getSchemaForFile once ensureCatalog has returned
AfterEnsureCatalog(i, rec, cat) ==
    IF ~JsonValue(cat).truthy THEN Continue(i, rec, "null")
    ELSE LET mapping == Mapping[cat][rec.doc]
         IN  IF mapping = "throw" THEN Continue(i, rec, "rejected")
             ELSE IF mapping = "" THEN Continue(i, rec, "null")
             ELSE GetSchemaContent(i, rec, mapping)

(***************************************************************************)
(* Actions                                                                 *)
(***************************************************************************)
InitFiles == {NoFile,
              [exists |-> TRUE, content |-> "s0", mtime |-> 0],
              [exists |-> TRUE, content |-> "s0", mtime |-> 0 - DayMs]}

Init ==
    /\ validateToml \in {"null", "loaded"}
    /\ catalog = JsNull
    /\ cache \in [SchemaUrls -> InitFiles]
    /\ now = 0
    /\ ticks = 0
    /\ env \in Environments
    /\ tasks = <<>>
    /\ published = [u \in Uris |-> Unset]
    /\ fetchedOk = FALSE
    /\ gPattern = <<>>
    /\ gName = <<>>
    /\ gResult = "idle"
    /\ mSchemas = <<>>
    /\ mResult = "idle"
    /\ sResult = NoResult
    /\ sDiags = <<>>
    /\ eErrors = <<>>
    /\ eContent = <<>>
    /\ eDiags = <<>>

SchemaStageAlways(syn) == TRUE

\* extension.ts 65: the schema step is entered when the syntax result is valid
\* (schemaService and validateWithSchema are set whenever validateToml is)
SchemaStage(syn) == syn = "valid"

SkipClears(d) ==
    /\ tasks' = Append(tasks, [NewTask(d) EXCEPT !.pc = "skipped"])
    /\ published' = [published EXCEPT ![d.uri] =
                        [set |-> TRUE, diags |-> <<>>, by |-> Len(tasks) + 1]]

\* extension.ts 38-40: the early return of updateDiagnostics
Skip(d) ==
    /\ tasks' = Append(tasks, [NewTask(d) EXCEPT !.pc = "skipped"])
    /\ UNCHANGED published

\* extension.ts 36-67 and 166-172: an open, change or active-editor event
\* calls updateDiagnostics(d); syn is what validate_toml makes of the text
Trigger(d, syn) ==
    /\ Len(tasks) < env.triggers
    /\ LET i == Len(tasks) + 1
           isToml == d.languageId = "toml" \/ EndsWith(d.fileName, DotToml)
           rec == [NewTask(d) EXCEPT !.syntax = syn]
           fetch == FetchJson(CatalogUrl, DefaultRedirects)
       IN  IF ~isToml \/ validateToml = "null"
           THEN /\ syn = "valid"       \* the validator is not called: one case
                /\ Skip(d)
           ELSE IF syn = "throws"
           THEN /\ tasks' = Append(tasks, [rec EXCEPT !.pc = "fault"])
                /\ UNCHANGED published
           ELSE LET diagnostics == IF syn = "invalid" THEN <<"Error">> ELSE <<>>
                    r1 == [rec EXCEPT !.diags = diagnostics]
                IN  IF SchemaStage(syn)
                    THEN IF JsonValue(catalog).truthy
                         THEN AfterEnsureCatalog(i, r1, catalog)
                         ELSE IF fetch.kind = "pending"
                         THEN Await(i, r1, "awaitCatalog", fetch)
                         ELSE AfterEnsureCatalog(i, [r1 EXCEPT !.cat = Ended(fetch)], catalog)
                    ELSE /\ tasks' = Append(tasks, [r1 EXCEPT !.pc = "published"])
                         /\ published' = [published EXCEPT ![d.uri] =
                                             [set |-> TRUE, diags |-> diagnostics, by |-> i]]
    /\ UNCHANGED <<validateToml, catalog, cache, now, ticks, env, fetchedOk, globVars>>

\* schemaService.ts 68-73: this.catalog after the try/catch around the fetch
CatalogAfter(o) == IF o.kind = "resolved" THEN o.json ELSE catalog

\* schemaService.ts 66-74 then 78-104: the catalog fetch has settled
EnsureCatalogSettled(i, o) ==
    LET cat == CatalogAfter(o)
    IN  /\ catalog' = cat
        /\ fetchedOk' = (fetchedOk \/ o.kind = "resolved")
        /\ AfterEnsureCatalog(i, [tasks[i] EXCEPT !.hops = DefaultRedirects - o.redirects,
                                                  !.cat = Ended(o), !.fetched = o.json], cat)
        /\ UNCHANGED cache

WriteFileOnePath(url, contentStr) ==
    [cache EXCEPT !["u1"] = [exists |-> TRUE, content |-> contentStr, mtime |-> now]]

\* schemaService.ts 109 and 125: fs.writeFileSync(cachePath, contentStr), where
\* cachePath is the md5 of the url: one file per url
WriteFile(url, contentStr) ==
    [cache EXCEPT ![url] = [exists |-> TRUE, content |-> contentStr, mtime |-> now]]

\* schemaService.ts 123-134: the schema download has settled
DownloadSettled(i, o) ==
    LET rec == [tasks[i] EXCEPT !.hops = DefaultRedirects - o.redirects]
        contentStr == JsonStringify(o.json)
    IN  /\ UNCHANGED <<catalog, fetchedOk>>
        /\ IF o.kind = "resolved"
           THEN \E write \in FsOutcomes :
                   IF write = "ok"
                   THEN /\ cache' = WriteFile(rec.target, contentStr)
                        /\ Continue(i, [rec EXCEPT !.dl = Ended(o)], contentStr)
                   ELSE /\ UNCHANGED cache
                        /\ Fallback(i, [rec EXCEPT !.dl = Ended(o), !.fsFault = "write"])
           ELSE /\ UNCHANGED cache
                /\ Fallback(i, [rec EXCEPT !.dl = Ended(o)])

\* a fetchJson call has moved: to the next request of a redirect chain, or to
\* its end, which resumes the function awaiting it
FetchStep(i, o) ==
    IF o.kind = "pending"
    THEN /\ Await(i, [tasks[i] EXCEPT !.hops = DefaultRedirects - o.redirects], tasks[i].pc, o)
         /\ UNCHANGED <<catalog, cache, fetchedOk>>
    ELSE IF tasks[i].pc = "awaitCatalog" THEN EnsureCatalogSettled(i, o)
    ELSE DownloadSettled(i, o)

Waiting(i) == tasks[i].pc \in {"awaitCatalog", "awaitSchema"} /\ ~tasks[i].hung

\* schemaService.ts 35-59: the server answers the request of task i
Respond(i, res) ==
    /\ Waiting(i)
    /\ FetchStep(i, HttpsGetCallback(tasks[i].url, tasks[i].redirects, res))
    /\ UNCHANGED <<validateToml, now, ticks, env, globVars>>

\* schemaService.ts 60-62: the request of task i fails
NetError(i) ==
    /\ Waiting(i)
    /\ FetchStep(i, HttpsGetError(tasks[i].url, tasks[i].redirects))
    /\ UNCHANGED <<validateToml, now, ticks, env, globVars>>

\* the request of task i gets neither an answer nor an error, ever: https.get
\* is called with no timeout (schemaService.ts 35)
Hang(i) ==
    /\ env.hangs
    /\ Waiting(i)
    /\ tasks' = [tasks EXCEPT ![i].hung = TRUE]
    /\ UNCHANGED <<validateToml, catalog, cache, now, ticks, env, published, fetchedOk,
                   globVars>>

\* time passes
Tick(dt) ==
    /\ ticks < env.ticks
    /\ ticks' = ticks + 1
    /\ now' = now + dt
    /\ UNCHANGED <<validateToml, catalog, cache, env, tasks, published, fetchedOk, globVars>>

BodiesFor(i) == IF tasks[i].pc = "awaitCatalog" THEN CatalogBodies ELSE SchemaBodies

Next ==
    \/ \E d \in Docs, syn \in SyntaxOutcomes : Trigger(d, syn)
    \/ \E i \in 1..Len(tasks) : \E res \in Responses(tasks[i].url, BodiesFor(i)) : Respond(i, res)
    \/ \E i \in 1..Len(tasks) : NetError(i)
    \/ \E i \in 1..Len(tasks) : Hang(i)
    \/ \E dt \in {1, DayMs - 1} : Tick(dt)

Spec == Init /\ [][Next]_vars

\* The same program where every request is answered: no request is left
\* hanging, and the response or the error of a pending request comes in the
\* end.  Servers may redirect, in a loop too, while one document is validated,
\* and several triggers overlap.
AnsweredEnvironments ==
    { Env(1, 1, TRUE, FALSE, TRUE),
      Env(MaxTriggers, 0, FALSE, FALSE, FALSE) }

InitAnswered ==
    /\ validateToml \in {"null", "loaded"}
    /\ catalog = JsNull
    /\ cache \in [SchemaUrls -> InitFiles]
    /\ now = 0
    /\ ticks = 0
    /\ env \in AnsweredEnvironments
    /\ tasks = <<>>
    /\ published = [u \in Uris |-> Unset]
    /\ fetchedOk = FALSE
    /\ gPattern = <<>>
    /\ gName = <<>>
    /\ gResult = "idle"
    /\ mSchemas = <<>>
    /\ mResult = "idle"
    /\ sResult = NoResult
    /\ sDiags = <<>>
    /\ eErrors = <<>>
    /\ eContent = <<>>
    /\ eDiags = <<>>

Answer(i) ==
    /\ i \in 1..Len(tasks)
    /\ \/ \E res \in Responses(tasks[i].url, BodiesFor(i)) : Respond(i, res)
       \/ NetError(i)

NextAnswered ==
    \/ \E d \in Docs, syn \in SyntaxOutcomes : Trigger(d, syn)
    \/ \E i \in 1..Len(tasks) : \E res \in Responses(tasks[i].url, BodiesFor(i)) : Respond(i, res)
    \/ \E i \in 1..Len(tasks) : NetError(i)
    \/ \E dt \in {1, DayMs - 1} : Tick(dt)

SpecAnswered ==
    InitAnswered /\ [][NextAnswered]_vars /\ \A i \in 1..(MaxTriggers + 1) : WF_vars(Answer(i))

(***************************************************************************)
(* The matcher alone: one pattern tried on one base name.                  *)
(***************************************************************************)
PatternChars == {"a", ".", "*", "?", "("}
NameChars == {"a", "b", "."}

InitGlob ==
    /\ validateToml = "null"
    /\ catalog = JsNull
    /\ cache = [u \in SchemaUrls |-> NoFile]
    /\ now = 0
    /\ ticks = 0
    /\ env = Env(0, 0, FALSE, FALSE, FALSE)
    /\ tasks = <<>>
    /\ published = [u \in Uris |-> Unset]
    /\ fetchedOk = FALSE
    /\ gPattern \in SeqsUpTo(PatternChars, MaxPatLen) \ {<<>>}
    /\ gName \in SeqsUpTo(NameChars, MaxNameLen)
    /\ gResult = "unset"
    /\ mSchemas = <<>>
    /\ mResult = "idle"
    /\ sResult = NoResult
    /\ sDiags = <<>>
    /\ eErrors = <<>>
    /\ eContent = <<>>
    /\ eDiags = <<>>

\* schemaService.ts 89-97: one call of the callback of fileMatch.some
TestPattern ==
    /\ gResult = "unset"
    /\ gResult' = PatternTest(gPattern, gName)
    /\ UNCHANGED <<orchVars, gPattern, gName, mSchemas, mResult, sResult, sDiags,
                   eErrors, eContent, eDiags>>

NextGlob == TestPattern

SpecGlob == InitGlob /\ [][NextGlob]_vars

(***************************************************************************)
(* The catalog search alone: one schemas array searched for one base name. *)
(***************************************************************************)
FindPatterns == {<<"a">>, <<"*">>, <<"(">>}
FindNames == {<<"a">>, <<"b">>}

\* the entries a catalog may hold: a url, and a fileMatch array or none
CatalogEntries ==
    {[url |-> u, hasFileMatch |-> FALSE, fileMatch |-> <<>>] : u \in SchemaUrls}
    \cup {[url |-> u, hasFileMatch |-> TRUE, fileMatch |-> fm] :
              u \in SchemaUrls, fm \in SeqsUpTo(FindPatterns, MaxPatterns)}

InitFind ==
    /\ validateToml = "null"
    /\ catalog = JsNull
    /\ cache = [u \in SchemaUrls |-> NoFile]
    /\ now = 0
    /\ ticks = 0
    /\ env = Env(0, 0, FALSE, FALSE, FALSE)
    /\ tasks = <<>>
    /\ published = [u \in Uris |-> Unset]
    /\ fetchedOk = FALSE
    /\ gPattern = <<>>
    /\ gName \in FindNames
    /\ gResult = "idle"
    /\ mSchemas \in SeqsUpTo(CatalogEntries, MaxEntries)
    /\ mResult = "unset"
    /\ sResult = NoResult
    /\ sDiags = <<>>
    /\ eErrors = <<>>
    /\ eContent = <<>>
    /\ eDiags = <<>>

\* schemaService.ts 85-98: this.catalog.schemas.find(...) on the base name
FindInCatalog ==
    /\ mResult = "unset"
    /\ mResult' = FindSchema(mSchemas, gName)
    /\ UNCHANGED <<orchVars, gPattern, gName, gResult, mSchemas, sResult, sDiags,
                   eErrors, eContent, eDiags>>

NextFind == FindInCatalog

SpecFind == InitFind /\ [][NextFind]_vars

(***************************************************************************)
(* The syntax mapping alone: one validation result mapped.                 *)
(***************************************************************************)
Positions == 0..MaxPos
Optional(S) == S \cup {Undefined}

\* the results validate_toml may give: a valid one carries no position; an
\* invalid one carries a start, or none, and may carry either end field; a
\* given end is not before the start
ValidationResults ==
    {ValidationResult(TRUE, Undefined, Undefined, Undefined, Undefined, "")}
    \cup {r \in {ValidationResult(FALSE, l, c, el, ec, m) :
                   l \in Optional(Positions), c \in Optional(Positions),
                   el \in Optional(Positions), ec \in Optional(Positions),
                   m \in {"", "m"}} :
             (r.line # Undefined /\ r.column # Undefined)
             => ~IsBefore([line |-> Coalesce(r.end_line, r.line),
                           character |-> Coalesce(r.end_column, r.column + 1)],
                          [line |-> r.line, character |-> r.column])}

InitSyntax ==
    /\ validateToml = "loaded"
    /\ catalog = JsNull
    /\ cache = [u \in SchemaUrls |-> NoFile]
    /\ now = 0
    /\ ticks = 0
    /\ env = Env(0, 0, FALSE, FALSE, FALSE)
    /\ tasks = <<>>
    /\ published = [u \in Uris |-> Unset]
    /\ fetchedOk = FALSE
    /\ gPattern = <<>>
    /\ gName = <<>>
    /\ gResult = "idle"
    /\ mSchemas = <<>>
    /\ mResult = "idle"
    /\ sResult \in ValidationResults
    /\ sDiags = NotMapped
    /\ eErrors = <<>>
    /\ eContent = <<>>
    /\ eDiags = <<>>

\* extension.ts 43-62
MapSyntax ==
    /\ sDiags = NotMapped
    /\ sDiags' = SyntaxDiagnostics(sResult)
    /\ UNCHANGED <<orchVars, gPattern, gName, gResult, mSchemas, mResult, sResult,
                   eErrors, eContent, eDiags>>

NextSyntax == MapSyntax

SpecSyntax == InitSyntax /\ [][NextSyntax]_vars

(***************************************************************************)
(* The schema mapping alone: the errors of one result mapped on one text.  *)
(***************************************************************************)
TextChars == {"a", "b", "\n"}

\* document texts: the short ones, and some that hold the word root
Texts ==
    SeqsUpTo(TextChars, MaxTextLen)
    \cup {Root, <<"a", "\n">> \o Root, Root \o <<"\n", "b">>}

\* the paths of schema errors: JSON pointers, and some that are none
ErrorPaths ==
    { <<>>, <<"/">>, <<"/", "a">>, <<"/", "a", "/", "b">>, <<"/", "b", "/">>,
      <<"b", "a">>, <<"/", "/", "a", "b">>, <<"/">> \o Root, <<"/", "a", "/">> \o Root }

SchemaErrors == {[path |-> path, message |-> "wrong type"] : path \in ErrorPaths}

InitSchemaMap ==
    /\ validateToml = "loaded"
    /\ catalog = JsNull
    /\ cache = [u \in SchemaUrls |-> NoFile]
    /\ now = 0
    /\ ticks = 0
    /\ env = Env(0, 0, FALSE, FALSE, FALSE)
    /\ tasks = <<>>
    /\ published = [u \in Uris |-> Unset]
    /\ fetchedOk = FALSE
    /\ gPattern = <<>>
    /\ gName = <<>>
    /\ gResult = "idle"
    /\ mSchemas = <<>>
    /\ mResult = "idle"
    /\ sResult = NoResult
    /\ sDiags = <<>>
    /\ eErrors \in SeqsUpTo(SchemaErrors, MaxErrors)
    /\ eContent \in Texts
    /\ eDiags = NotMapped

\* extension.ts 75-98 for a result that is not valid
MapSchemaErrors ==
    /\ eDiags = NotMapped
    /\ eDiags' = SchemaDiagnostics(eContent, eErrors)
    /\ UNCHANGED <<orchVars, gPattern, gName, gResult, mSchemas, mResult, sResult, sDiags,
                   eErrors, eContent>>

NextSchemaMap == MapSchemaErrors

SpecSchemaMap == InitSchemaMap /\ [][NextSchemaMap]_vars

(***************************************************************************)
(* Properties                                                              *)
(***************************************************************************)
TaskIds == 1..Len(tasks)
Finished(i) == tasks[i].pc = "published"
HasContent(i) == tasks[i].res \notin {"none", "null", "rejected", ""}
Range(seq) == {seq[k] : k \in 1..Len(seq)}
H24 == 24 * 60 * 60 * 1000

\* C1: once a later trigger for a document has published, what is published
\* for the document is not the result of an earlier trigger: the set shown
\* comes from the latest trigger that has published for it.
C1_LaterTriggerWins ==
    \A i \in TaskIds : Finished(i) => published[tasks[i].doc].by >= i

\* C2: a fetch fails with too many redirects exactly when it meets a sixth
\* redirect; five redirects are followed (and a 200 after them is accepted).
TooManyRedirects(i) == "TooManyRedirects" \in {tasks[i].cat, tasks[i].dl}
C2_FiveRedirectsFollowed ==
    \A i \in TaskIds : /\ TooManyRedirects(i) => tasks[i].hops = 6
                       /\ tasks[i].hops = 6 => TooManyRedirects(i)

\* glob semantics: "*" is any run of characters, "?" any one character, every
\* other character itself, and the whole base name is matched
RECURSIVE GlobMatch(_, _)
GlobMatch(p, s) ==
    IF p = <<>> THEN s = <<>>
    ELSE IF Head(p) = "*"
    THEN GlobMatch(Tail(p), s) \/ (s # <<>> /\ GlobMatch(p, Tail(s)))
    ELSE s # <<>> /\ (Head(p) = "?" \/ Head(p) = Head(s)) /\ GlobMatch(Tail(p), Tail(s))

\* C3: the matcher reports a match exactly when the base name matches the
\* pattern under glob semantics.
C3_GlobSemantics ==
    gResult # "unset" => ((gResult = "match") <=> GlobMatch(gPattern, gName))

\* C4: when the download of a schema fails (and no call on the cache file
\* throws), the lookup returns the content of the cache file if there is one,
\* and none only if there is no file.
C4_StaleFallback ==
    [][\A i \in 1..Len(tasks') :
          LET t == tasks'[i]
          IN  ( /\ t.dl \in {"failed", "TooManyRedirects"}
                /\ (i > Len(tasks) \/ tasks[i].dl = "")
                /\ t.fsFault = "" )
              => IF cache[t.target].exists
                 THEN t.res = cache[t.target].content
                 ELSE t.res = "null"]_vars

\* a lookup served from a file that was stale when the download failed
C4_Witness ==
    \E i \in TaskIds : /\ tasks[i].dl = "failed"
                       /\ tasks[i].res = "s0"
                       /\ cache[tasks[i].target].mtime = 0 - DayMs

\* C5: a lookup of a URL whose file is younger than 24 hours returns the file's
\* content and sends no request for the URL; a lookup of a URL whose file is
\* older than 24 hours, or missing, sends the download request; and a download
\* that succeeds leaves the file with the text it returns and the time of the
\* download, so that the lookups of the next 24 hours are of the first kind.
\* (A lookup in which a call on the cache file throws is left out.)
C5_Freshness ==
    [][/\ \A i \in 1..Len(tasks') :
             LET t == tasks'[i]
                 f == cache[t.target]
             IN  ( /\ t.target # ""
                   /\ (i > Len(tasks) \/ tasks[i].target = "")
                   /\ t.fsFault = "" )
                 => /\ (f.exists /\ now - f.mtime < H24)
                         => t.pc = "published" /\ t.res = f.content /\ t.schReqs = 0
                    /\ (~f.exists \/ now - f.mtime > H24)
                         => t.pc = "awaitSchema" /\ t.url = t.target /\ t.schReqs = 1
       /\ \A i \in 1..Len(tasks) :
             (tasks[i].dl = "" /\ tasks'[i].dl = "ok" /\ tasks'[i].fsFault = "")
             => cache'[tasks[i].target] =
                   [exists |-> TRUE, content |-> tasks'[i].res, mtime |-> now]]_vars

\* a file one millisecond short of 24 hours old has been served without a
\* request, and a download has been written and served again within the day
C5_Witness ==
    /\ ticks = 1
    /\ \E i \in TaskIds : /\ Finished(i) /\ tasks[i].res = "s0" /\ tasks[i].schReqs = 0
                          /\ now - cache[tasks[i].target].mtime = DayMs - 1
    /\ \E i \in TaskIds : /\ Finished(i) /\ tasks[i].dl = "ok" /\ tasks[i].schReqs = 1
                          /\ cache[tasks[i].target].content = tasks[i].res
                          /\ cache[tasks[i].target].mtime = now

\* C6: once a fetch of the catalog has completed successfully, a call of
\* getSchemaForFile sends no request to the catalog URL.
C6_CatalogMemoized ==
    [][fetchedOk => \A i \in (Len(tasks) + 1)..Len(tasks') : tasks'[i].catReqs = 0]_vars

\* C7: getSchemaForFile never rejects.
C7_NeverRejects ==
    \A i \in TaskIds : tasks[i].res # "rejected"

\* C8: a step in which a call of the validator throws leaves the diagnostics
\* of every document as they were.
ValidatorThrows(i) ==
    \/ i > Len(tasks) /\ tasks'[i].pc = "fault"
    \/ /\ tasks'[i].schema = "throws"
       /\ (i > Len(tasks) \/ tasks[i].schema # "throws")
C8_FaultKeepsDiagnostics ==
    [][(\E i \in 1..Len(tasks') : ValidatorThrows(i))
          => \A u \in Uris : published'[u].diags = published[u].diags]_vars

\* C9: a trigger whose syntax validation has returned, and which is not
\* waiting for an answer that can still come, has published its syntax
\* outcome: the syntax error if the text is invalid, none if it is valid.
C9_SyntaxPublished ==
    \A i \in TaskIds :
        (tasks[i].syntax \in {"valid", "invalid"} /\ ~Waiting(i))
        => /\ Finished(i)
           /\ ("Error" \in Range(tasks[i].diags)) <=> (tasks[i].syntax = "invalid")

\* the schema URL the catalog of the registry gives for a document
MapsTo(uri) == FindMapping("good", DocOf(uri).fileName)
\* "s0" is written by no download: such a file was in the cache directory when
\* the process started
PreExisting(u) == u \in SchemaUrls /\ cache[u].exists /\ cache[u].content = "s0"

\* C10: with the schema of a document's URL in the cache directory, resolving
\* the schema gives schema text although the catalog request fails.
C10_OfflineCache ==
    \A i \in TaskIds :
        ( /\ Finished(i) /\ tasks[i].syntax = "valid"
          /\ tasks[i].cat = "failed" /\ tasks[i].fsFault = ""
          /\ PreExisting(MapsTo(tasks[i].doc)) )
        => HasContent(i)

\* an entry one of whose patterns the matcher reports as matching the name
EntryMatches(s, baseName) ==
    s.hasFileMatch /\ \E j \in 1..Len(s.fileMatch) : PatternTest(s.fileMatch[j], baseName) = "match"

\* C11: the search gives the url of the first entry, in catalog order, one of
\* whose patterns matches the base name, and none (no error) when no entry has
\* a matching pattern.
C11_FirstMatch ==
    mResult \notin {"idle", "unset"} =>
        LET hits == {k \in 1..Len(mSchemas) : EntryMatches(mSchemas[k], gName)}
        IN  IF hits = {} THEN mResult = ""
            ELSE mResult = mSchemas[CHOOSE k \in hits : \A h \in hits : k <= h].url

\* a call for a document that is not a TOML document: neither by its language
\* mode nor by its file name
NotRecognized(t) ==
    t.languageId # "toml" /\ ~EndsWith(DocOf(t.doc).fileName, DotToml)

\* C12: a trigger for a document that is not of the recognized type validates
\* nothing, sends nothing and publishes nothing: what is published for every
\* document, that one included, is as before.
C12_NonTomlFrame ==
    [][\A i \in (Len(tasks) + 1)..Len(tasks') :
          NotRecognized(tasks'[i])
          => /\ published' = published
             /\ tasks'[i].syntax = "notrun" /\ tasks'[i].schema = "notrun"
             /\ tasks'[i].catReqs = 0 /\ tasks'[i].schReqs = 0]_vars

\* a.txt shows a syntax error from the time its mode was toml, and a trigger
\* in plaintext mode has left it there
C12_Witness ==
    \E i \in TaskIds : /\ NotRecognized(tasks[i])
                       /\ tasks[i].pc = "skipped"
                       /\ published[tasks[i].doc].diags = <<"Error">>
                       /\ published[tasks[i].doc].by < i

\* C13: a valid result gives no syntax diagnostic; an invalid result with a
\* start (line, column) gives exactly one diagnostic, of severity Error, from
\* (line, column) to the end given, where a missing end line is the start line
\* and a missing end column is column + 1.
C13_SyntaxMapping ==
    sDiags # NotMapped =>
        /\ sResult.valid => sDiags = <<>>
        /\ (~sResult.valid /\ sResult.line # Undefined /\ sResult.column # Undefined)
           => /\ Len(sDiags) = 1
              /\ sDiags[1].severity = "Error"
              /\ sDiags[1].range.start = [line |-> sResult.line, character |-> sResult.column]
              /\ sDiags[1].range.end =
                    [line |-> IF sResult.end_line = Undefined
                              THEN sResult.line ELSE sResult.end_line,
                     character |-> IF sResult.end_column = Undefined
                                   THEN sResult.column + 1 ELSE sResult.end_column]

\* line 2, column 4 with no end fields has been mapped to (2,4)-(2,5)
C13_Witness ==
    /\ sResult = ValidationResult(FALSE, 2, 4, Undefined, Undefined, "")
    /\ Len(sDiags) = 1
    /\ sDiags # NotMapped
    /\ sDiags[1].range = [start |-> [line |-> 2, character |-> 4],
                          end |-> [line |-> 2, character |-> 5]]

\* the last non-empty piece of a path between slashes, by its place in the
\* path: it ends at the last character that is no slash and begins after the
\* slash before that
LastSegment(path) ==
    LET solid == {k \in 1..Len(path) : path[k] # "/"}
        last == CHOOSE k \in solid : \A j \in solid : j <= k
        first == CHOOSE k \in 1..last :
                    /\ \A j \in k..last : path[j] # "/"
                    /\ (k = 1 \/ path[k - 1] = "/")
    IN  IF solid = {} THEN Root ELSE SubSeq(path, first, last)

\* the offset of a position in a text: the characters of the lines before it,
\* their line breaks included, and the characters before it on its line
OffsetOf(content, pos) ==
    LET breaks == {k \in 1..Len(content) : content[k] = "\n"}
        lineStart == IF pos.line = 0 THEN 0
                     ELSE CHOOSE k \in breaks :
                             Cardinality({j \in breaks : j <= k}) = pos.line
    IN  lineStart + pos.character

\* C14: the errors of an invalid schema result give one Warning each, in their
\* order; the diagnostic of an error whose key (the last non-empty segment of
\* its path, "root" if there is none) is not "root" and occurs in the text
\* spans the first occurrence of the key, and every other is at (0,0)-(0,1).
C14_SchemaMapping ==
    eDiags # NotMapped =>
        /\ Len(eDiags) = Len(eErrors)
        /\ \A k \in 1..Len(eErrors) :
              LET key == LastSegment(eErrors[k].path)
                  hits == {i \in 0..Len(eContent) : OccursAt(eContent, key, i)}
                  range == eDiags[k].range
              IN  /\ eDiags[k].severity = "Warning"
                  /\ eDiags[k].message[3] = eErrors[k].path
                  /\ IF key # Root /\ hits # {}
                     THEN /\ OffsetOf(eContent, range.start) \in hits
                          /\ \A i \in hits : OffsetOf(eContent, range.start) <= i
                          /\ OffsetOf(eContent, range.end)
                                = OffsetOf(eContent, range.start) + Len(key)
                          /\ range.start.line = range.end.line
                     ELSE range = [start |-> [line |-> 0, character |-> 0],
                                   end |-> [line |-> 0, character |-> 1]]

\* errors at /a/b and at / on the text "a\nba": the first is on b, at line 1,
\* the second at the first character
C14_Witness ==
    /\ eErrors = <<[path |-> <<"/", "a", "/", "b">>, message |-> "wrong type"],
                   [path |-> <<"/">>, message |-> "wrong type"]>>
    /\ eContent = <<"a", "\n", "b", "a">>
    /\ Len(eDiags) = 2
    /\ eDiags[1].range = [start |-> [line |-> 1, character |-> 0],
                          end |-> [line |-> 1, character |-> 1]]
    /\ eDiags[2].range = [start |-> [line |-> 0, character |-> 0],
                          end |-> [line |-> 0, character |-> 1]]

SyntaxFailed(i) == tasks[i].syntax \in {"invalid", "invalidNoPosition"}

CatalogFetchFails(i) ==
    tasks[i].pc = "awaitCatalog" /\ tasks'[i].cat \in {"failed", "TooManyRedirects"}

\* C16: a catalog fetch that fails leaves the memoized catalog as it was, and
\* with the catalog absent the resolution gives none; a resolution that finds
\* the catalog absent sends a catalog request; and after a catalog fetch that
\* succeeds the catalog is there, the one that was fetched.
C16_FailureNotMemoized ==
    [][/\ \A i \in 1..Len(tasks) :
             CatalogFetchFails(i)
             => /\ catalog' = catalog
                /\ ~JsonValue(catalog).truthy
                   => tasks'[i].res = "null" /\ tasks'[i].target = ""
       /\ \A i \in (Len(tasks) + 1)..Len(tasks') :
             (tasks'[i].syntax = "valid" /\ ~JsonValue(catalog).truthy)
             => /\ tasks'[i].pc = "awaitCatalog" /\ tasks'[i].url = CatalogUrl
                /\ tasks'[i].catReqs = 1
       /\ \A i \in 1..Len(tasks) :
             (tasks[i].pc = "awaitCatalog" /\ tasks'[i].cat = "ok")
             => catalog' = tasks'[i].fetched /\ JsonValue(catalog').truthy]_vars

\* a task whose request has been sent and has not been answered
InFlight(i) == tasks[i].pc \in {"awaitCatalog", "awaitSchema"}

\* C17: no two requests for the same URL are in flight at the same time.
C17_SingleFlight ==
    \A i, j \in TaskIds : (i # j /\ InFlight(i) /\ InFlight(j)) => tasks[i].url # tasks[j].url

Stale(file, time) == file.exists /\ time - file.mtime >= H24

\* C18: a cache file is never deleted; it changes only in the step in which a
\* download of its own URL succeeds, and then holds the content the lookup
\* returns, with the time of the download; in every other step (a lookup
\* served from the file, a failed download, a lookup of another URL, time
\* passing) its content and time are as before, and a stale file is still
\* stale.
C18_CacheFrame ==
    [][\A u \in SchemaUrls :
          /\ cache[u].exists => cache'[u].exists
          /\ cache'[u] # cache[u]
             => \E i \in 1..Len(tasks) :
                   /\ tasks[i].pc = "awaitSchema" /\ tasks[i].target = u
                   /\ tasks'[i].dl = "ok"
                   /\ cache'[u] = [exists |-> TRUE, content |-> tasks'[i].res, mtime |-> now]
          /\ (Stale(cache[u], now) /\ cache'[u] = cache[u]) => Stale(cache'[u], now')]_vars

\* the stale file of one URL is as it was after a download of it failed and
\* the lookup fell back on it, while the file of the other URL has been
\* written by a download that succeeded
C18_Witness ==
    \E i, j \in TaskIds :
        /\ tasks[i].dl = "failed" /\ tasks[i].res = "s0"
        /\ cache[tasks[i].target] = [exists |-> TRUE, content |-> "s0", mtime |-> 0 - DayMs]
        /\ tasks[j].dl = "ok" /\ tasks[j].target # tasks[i].target
        /\ cache[tasks[j].target] = [exists |-> TRUE, content |-> tasks[j].res, mtime |-> now]

\* task i publishes in this step
Publishes(i) ==
    tasks'[i].pc = "published" /\ (i > Len(tasks) \/ tasks[i].pc # "published")

\* C19: a publish sets the document's set to the list the publishing task has
\* computed, whatever was there, and leaves the sets of the other documents;
\* the sets change in no other way; and a task with valid syntax whose schema
\* lookup gives none, or whose schema finds no errors, publishes the empty set.
C19_PublishReplaces ==
    [][/\ \A i \in 1..Len(tasks') :
             LET t == tasks'[i]
             IN  /\ Publishes(i)
                    => /\ published'[t.doc] = [set |-> TRUE, diags |-> t.diags, by |-> i]
                       /\ \A u \in Uris \ {t.doc} : published'[u] = published[u]
                 /\ (t.syntax = "valid" /\ (t.res \in {"null", "rejected"} \/ t.schema = "valid"))
                    => t.pc = "published" /\ t.diags = <<>>
       /\ published' # published => \E i \in 1..Len(tasks') : Publishes(i)]_vars

\* a document showing the syntax error of one trigger has been cleared by a
\* later trigger with valid text for which there is no schema
C19_Witness ==
    \E i, j \in TaskIds :
        /\ i < j /\ tasks[i].doc = tasks[j].doc
        /\ tasks[i].diags = <<"Error">> /\ Finished(i)
        /\ tasks[j].syntax = "valid" /\ tasks[j].res = "null"
        /\ published[tasks[j].doc] = [set |-> TRUE, diags |-> <<>>, by |-> j]

\* the call has returned or thrown: it has published, ended with a fault of
\* the validator, or returned at once
Done(i) == tasks[i].pc \in {"published", "fault", "skipped"}

\* C20: when every request is answered, a fetch follows a bounded number of
\* redirects, and every trigger ends: it publishes, or ends with a fault of
\* the validator.
C20_Terminates ==
    /\ [](\A i \in TaskIds : tasks[i].hops <= DefaultRedirects)
    /\ \A i \in 1..(MaxTriggers + 1) : (Len(tasks) >= i) ~> (Len(tasks) >= i /\ Done(i))

\* a catalog fetch was redirected until it gave up, and the trigger published
C20_Witness ==
    \E i \in TaskIds : /\ tasks[i].cat = "TooManyRedirects"
                       /\ tasks[i].hops >= 2
                       /\ Finished(i)

====
